---------------------------- MODULE Spec2Model ----------------------------
(***************************************************************************)
(* App Store catalog scraper (src/main.py).                                *)
(*                                                                         *)
(* Four state machines share this module, each over its own variables:    *)
(*   SpecFeed   one call of get_app_data on one feed response              *)
(*   SpecBuild  run_giant_mode / run_supplement_mode / run_builtin_mode    *)
(*   Spec       run_enrich_mode (load, worker pool, collect, write)        *)
(*   SpecLinks  one call of find_universal_links                           *)
(*                                                                         *)
(* Python values: a dict is a function over the keys it holds (a missing   *)
(* key is a key outside DOMAIN), a list is a sequence, None is the string  *)
(* None.  An exception that leaves a function is the outcome "raised".     *)
(***************************************************************************)
EXTENDS Integers, Sequences, FiniteSets, TLC

None == "None"

\* dict.get(key): the value, or None when the key is missing.
Get(d, k) == IF k \in DOMAIN d THEN d[k] ELSE None

\* Python truthiness of an optional string: None and "" are false.
Truthy(v) == v # None /\ v # ""

EmptyDict == [k \in {} |-> None]

\* A dict holding key k unless the value is None (used to build inputs).
Opt(k, v) == IF v = None THEN EmptyDict ELSE (k :> v)

SeqsUpTo(S, n) == UNION {[1..m -> S] : m \in 0..n}

Range(s) == {s[i] : i \in DOMAIN s}

NoDup(s) == \A i, j \in DOMAIN s : i # j => s[i] # s[j]

\* seq[:n] for n >= 0.
Prefix(s, n) == SubSeq(s, 1, IF n < Len(s) THEN n ELSE Len(s))

(***************************************************************************)
(* Bounds of the model.                                                    *)
(***************************************************************************)
MaxEntries == 2   \* entries in one feed response
MaxGrid == 2      \* leading genres / countries / feed tuples of a traversal
MaxLimit == 2     \* largest --limit value explored

(***************************************************************************)
(* Constants of the program.                                               *)
(***************************************************************************)
GAME_GENRE_IDS ==
    <<7001, 7002, 7003, 7004, 7005, 7006, 7009, 7011,
      7012, 7013, 7014, 7015, 7016, 7017, 7018, 7019, 6014>>

OTHER_GENRE_IDS ==
    <<6018, 6000, 6022, 6026, 6017, 6016, 6015, 6023,
      6027, 6013, 6012, 6021, 6020, 6011, 6010, 6009,
      6008, 6007, 6006, 6024, 6005, 6004, 6003, 6002, 6001>>

BUILTIN_COUNTRIES ==
    <<"us", "cn", "de", "jp", "in", "gb", "fr", "it", "br", "ca", "ru", "mx",
      "au", "kr", "es", "id", "tr", "nl", "sa", "ch", "pl", "tw", "ar", "be",
      "se", "ie", "ae", "il", "sg", "th", "at", "no", "vn", "ph", "bd", "co",
      "my", "za", "dk", "hk", "ro", "eg", "cl", "cz", "ir", "pt", "fi", "kz",
      "pe", "gr">>

VARIABLES
    \* ---- SpecFeed: one get_app_data call
    response,        \* the feed response of the call
    seen_before,     \* processed_app_ids as the caller passed it
    returned,        \* what the call did: [outcome, new_apps, processed]
    \* ---- SpecBuild: one Catalog Builder run
    mode, limit,     \* which run_*_mode, and its limit argument (0 = None)
    next_req,        \* index into the traversal of the request made next
    all_apps,        \* all_apps
    processed_ids,   \* processed_ids
    saved,           \* the list handed to save_to_json, as <<list>>, or <<>>
    build_pc,        \* "off", "loop", "done", "raised"
    dup_offered,     \* history: some call was offered an id a second time
    \* ---- SpecLinks: one find_universal_links call
    arg_seller_url,  \* its first argument (None when the lookup gave none)
    arg_bundle_id,   \* its second argument
    web,             \* the response each association URL gives
    links_out,       \* what the call did: [outcome, links, requested]
    \* ---- Spec: run_enrich_mode
    dir,             \* the directory: file name -> file content
    lookup,          \* the lookup endpoint: id -> its response
    enrich_limit,    \* the limit argument (0 = None)
    run,             \* 1 for the first run on the directory, 2 for the next
    snapshot,        \* the directory as the previous run left it
    json_files,      \* json_files
    unique_apps,     \* unique_apps.values(), in insertion order
    apps_to_process, \* apps_to_process: one submitted task per element
    task,            \* per task: "queued", "running" or "done"
    collected,       \* the tasks as_completed has yielded
    enriched_data,   \* enriched_data
    write_pos,       \* files of json_files Step 3 is through with
    enrich_pc        \* "off", "start", "collect", "aborting", "write",
                     \* "done", "raised_load", "raised_tasks", "raised_write"

feedVars == <<response, seen_before, returned>>
buildVars == <<mode, limit, next_req, all_apps, processed_ids, saved, build_pc,
              dup_offered>>
linksVars == <<arg_seller_url, arg_bundle_id, web, links_out>>
enrichVars == <<dir, lookup, enrich_limit, run, snapshot, json_files, unique_apps,
               apps_to_process, task, collected, enriched_data, write_pos, enrich_pc>>
vars == <<feedVars, buildVars, linksVars, enrichVars>>

(***************************************************************************)
(* Feed responses.                                                         *)
(***************************************************************************)
FeedIds == {"1", "2"}

Img(height, label) == Opt("height", height) @@ Opt("label", label)

\* The im:image lists tried: none, no height-100 image, a height-100 image
\* after another one, two height-100 images, a height-100 image without a
\* label.
ImageLists ==
    { <<>>,
      <<Img("53", "s.png")>>,
      <<Img("53", "s.png"), Img("100", "m.png")>>,
      <<Img("100", "m.png"), Img("100", "n.png")>>,
      <<Img("100", None)>> }

Entry(id, bundle_id, name, images) ==
    ("is_dict" :> TRUE) @@ Opt("id", id) @@ Opt("bundle_id", bundle_id)
        @@ Opt("name", name) @@ ("images" :> images)

\* A feed entry: a dict with any of its fields missing, or not a dict at all.
Entries ==
    { Entry(id, b, n, imgs) :
        id \in FeedIds \cup {None}, b \in {"com.a", None},
        n \in {"A", None}, imgs \in ImageLists }
    \cup { ("is_dict" :> FALSE) }

\* What requests.get + raise_for_status + response.json() can give:
\* a transport failure, a non-success status, an undecodable body, a body
\* that is no JSON object, or a feed document with its entry list.
Responses ==
    { [status |-> s, entries |-> <<>>] :
        s \in {"transport_error", "http_error", "not_json", "not_object"} }
    \cup { [status |-> "ok", entries |-> es] : es \in SeqsUpTo(Entries, MaxEntries) }

(***************************************************************************)
(* get_app_data                                                            *)
(***************************************************************************)
\* next((img["label"] for img in images if height == "100"), None):
\* the first height-100 image decides; img["label"] raises KeyError when
\* that image has no label.
RECURSIVE FirstIcon(_)
FirstIcon(images) ==
    IF images = <<>> THEN [raised |-> FALSE, icon_url |-> None]
    ELSE IF Get(Head(images), "height") = "100"
         THEN IF "label" \in DOMAIN Head(images)
              THEN [raised |-> FALSE, icon_url |-> Head(images)["label"]]
              ELSE [raised |-> TRUE, icon_url |-> None]
         ELSE FirstIcon(Tail(images))

\* line 63: not app_id or app_id in processed_app_ids
\* SkipsIdNoCheck is the variant that ignores processed_app_ids.
SkipsIdNoCheck(app_id, processed) == ~Truthy(app_id)
SkipsId(app_id, processed) == ~Truthy(app_id) \/ app_id \in processed

\* line 67: name and icon_url and bundle_id
\* IsCompleteNoBundle is the variant that does not ask for bundle_id.
IsCompleteNoBundle(name, icon_url, bundle_id) == Truthy(name) /\ Truthy(icon_url)
IsComplete(name, icon_url, bundle_id) ==
    Truthy(name) /\ Truthy(icon_url) /\ Truthy(bundle_id)

AppRecord(app_id, bundle_id, name, icon_url) ==
    [id |-> app_id, bundle_id |-> bundle_id, name |-> name, icon_url |-> icon_url]

\* The loop body of lines 59-71 on one entry: "append" with the record,
\* "skip" (continue, an incomplete entry, or a caught AttributeError /
\* TypeError), or "raise" (the KeyError of img["label"], which line 70 does
\* not catch).
ParseEntry(entry, processed) ==
    IF ~entry["is_dict"] THEN [do |-> "skip"]
    ELSE LET app_id == Get(entry, "id")
             bundle_id == Get(entry, "bundle_id")
         IN  IF SkipsId(app_id, processed) THEN [do |-> "skip"]
             ELSE LET name == Get(entry, "name")
                      icon == FirstIcon(entry["images"])
                  IN  IF icon.raised THEN [do |-> "raise"]
                      ELSE IF IsComplete(name, icon.icon_url, bundle_id)
                           THEN [do |-> "append",
                                 app |-> AppRecord(app_id, bundle_id, name, icon.icon_url)]
                           ELSE [do |-> "skip"]

RECURSIVE ParseEntries(_, _, _)
ParseEntries(entries, new_apps, processed) ==
    IF entries = <<>>
    THEN [outcome |-> "returned", new_apps |-> new_apps, processed |-> processed]
    ELSE LET step == ParseEntry(Head(entries), processed)
         IN  CASE step.do = "raise" ->
                    [outcome |-> "raised", new_apps |-> new_apps, processed |-> processed]
               [] step.do = "append" ->
                    ParseEntries(Tail(entries), Append(new_apps, step.app),
                                 processed \cup {step.app.id})
               [] OTHER -> ParseEntries(Tail(entries), new_apps, processed)

\* get_app_data(country_code, genre_id, feed_type, limit, processed_app_ids)
\* on the response its request got.  The request's parameters only build the
\* URL; the sleep changes nothing.
get_app_data(resp, processed) ==
    CASE resp.status \in {"transport_error", "http_error", "not_json"} ->
            [outcome |-> "returned", new_apps |-> <<>>, processed |-> processed]
      [] resp.status = "not_object" ->
            \* data.get on a JSON array: AttributeError, outside the try
            [outcome |-> "raised", new_apps |-> <<>>, processed |-> processed]
      [] OTHER -> ParseEntries(resp.entries, <<>>, processed)

NotCalled == [outcome |-> "none", new_apps |-> <<>>, processed |-> {}]

(***************************************************************************)
(* SpecFeed: get_app_data applied to every response and processed-id set.  *)
(***************************************************************************)
BuildOff ==
    /\ mode = "off" /\ limit = 0 /\ next_req = 0 /\ all_apps = <<>>
    /\ processed_ids = {} /\ saved = <<>> /\ build_pc = "off"
    /\ dup_offered = FALSE

LinksNotCalled == [outcome |-> "none", links |-> <<>>, requested |-> <<>>]

LinksOff ==
    /\ arg_seller_url = None /\ arg_bundle_id = None /\ web = EmptyDict
    /\ links_out = LinksNotCalled

EnrichOff ==
    /\ dir = EmptyDict /\ lookup = EmptyDict /\ enrich_limit = 0 /\ run = 0
    /\ snapshot = EmptyDict /\ json_files = <<>> /\ unique_apps = <<>>
    /\ apps_to_process = <<>> /\ task = <<>> /\ collected = {}
    /\ enriched_data = EmptyDict /\ write_pos = 0 /\ enrich_pc = "off"

InitFeed ==
    /\ response \in Responses
    /\ seen_before \in SUBSET FeedIds
    /\ returned = NotCalled
    /\ BuildOff /\ LinksOff /\ EnrichOff

CallGetAppData ==
    /\ returned.outcome = "none"
    /\ response.status # "off"
    /\ returned' = get_app_data(response, seen_before)
    /\ UNCHANGED <<response, seen_before, buildVars, linksVars, enrichVars>>

NextFeed == CallGetAppData

SpecFeed == InitFeed /\ [][NextFeed]_vars

(***************************************************************************)
(* What a feed entry offers, read off the response alone.                  *)
(***************************************************************************)
\* The entry has an id, a bundle_id, a name and a height-100 image.
EntryHasAll(e) ==
    /\ e["is_dict"]
    /\ Truthy(Get(e, "id")) /\ Truthy(Get(e, "bundle_id")) /\ Truthy(Get(e, "name"))
    /\ \E i \in DOMAIN e["images"] : Get(e["images"][i], "height") = "100"

\* The label of the entry's first height-100 image (None without one).
IconOf(e) ==
    LET hits == {i \in DOMAIN e["images"] : Get(e["images"][i], "height") = "100"}
    IN  IF hits = {} THEN None
        ELSE Get(e["images"][CHOOSE i \in hits : \A j \in hits : i <= j], "label")

\* The entries of es that are due a record: complete, their id not in
\* seen, and no complete entry with the same id before them.
KeptIdx(es, seen) ==
    {i \in DOMAIN es :
        /\ EntryHasAll(es[i])
        /\ es[i]["id"] \notin seen
        /\ \A j \in 1..(i - 1) : ~(EntryHasAll(es[j]) /\ es[j]["id"] = es[i]["id"])}

ExpectedApps(es, seen) ==
    LET kept == KeptIdx(es, seen)
        nth(k) == CHOOSE i \in kept : Cardinality({j \in kept : j <= i}) = k
    IN  [k \in 1..Cardinality(kept) |->
            AppRecord(es[nth(k)]["id"], es[nth(k)]["bundle_id"],
                      es[nth(k)]["name"], IconOf(es[nth(k)]))]

\* The entry reaches img["label"] on a height-100 image that has no label.
LabelMissing(e) ==
    e["is_dict"] /\ Truthy(Get(e, "id")) /\ FirstIcon(e["images"]).raised

country_code == "jp"

\* "limit or 100"
PageSize(lim, default) == IF lim # 0 THEN lim ELSE default

\* "if limit: xs = xs[:1]".  The model walks only the first MaxGrid
\* elements of a table.
Scope(xs, lim) == IF lim # 0 THEN Prefix(xs, 1) ELSE Prefix(xs, MaxGrid)

Request(country, genre_id, feed_type, lim) ==
    [country |-> country, genre_id |-> genre_id, feed_type |-> feed_type, limit |-> lim]

\* for a in outer: for b in inner, as the sequence of the pairs <<a, b>>.
Nested(outer, inner) ==
    [k \in 1..(Len(outer) * Len(inner)) |->
        <<outer[((k - 1) \div Len(inner)) + 1], inner[((k - 1) % Len(inner)) + 1]>>]

GiantGrid(lim) ==
    LET all_genre_ids == Scope(GAME_GENRE_IDS \o OTHER_GENRE_IDS, lim)
        feed_types == <<"topfreeapplications", "toppaidapplications">>
        pairs == Nested(all_genre_ids, feed_types)
    IN  [k \in DOMAIN pairs |->
            Request(country_code, pairs[k][1], pairs[k][2], PageSize(lim, 100))]

SupplementGrid(lim) ==
    LET supplement_genres ==
            Scope(GAME_GENRE_IDS \o <<6016, 6024, 6005, 6023, 6018>>, lim)
    IN  [k \in 1..Len(supplement_genres) |->
            Request(country_code, supplement_genres[k], "topfreeapplications",
                    PageSize(lim, 100))]

feeds_to_fetch ==
    << [genre_id |-> 6014, limit |-> 100, feed_type |-> "toppaidapplications"],
       [genre_id |-> 6014, limit |-> 100, feed_type |-> "topfreeapplications"],
       [genre_id |-> 6016, limit |-> 50, feed_type |-> "topfreeapplications"],
       [genre_id |-> 6005, limit |-> 50, feed_type |-> "topfreeapplications"],
       [genre_id |-> 6024, limit |-> 50, feed_type |-> "topfreeapplications"],
       [genre_id |-> 6018, limit |-> 50, feed_type |-> "topfreeapplications"] >>

BuiltinGrid(lim) ==
    LET countries == Scope(BUILTIN_COUNTRIES, lim)
        feeds == Scope(feeds_to_fetch, lim)
        pairs == Nested(countries, feeds)
    IN  [k \in DOMAIN pairs |->
            Request(pairs[k][1], pairs[k][2].genre_id, pairs[k][2].feed_type,
                    PageSize(lim, pairs[k][2].limit))]

\* The get_app_data calls of a run, in the order the run makes them.
Grid(m, lim) ==
    CASE m = "giant" -> GiantGrid(lim)
      [] m = "supplement" -> SupplementGrid(lim)
      [] OTHER -> BuiltinGrid(lim)

\* The response offers a second time an id a record already exists for, or
\* offers one id twice.
OffersDuplicate(resp, processed) ==
    \E i \in DOMAIN resp.entries :
        /\ EntryHasAll(resp.entries[i])
        /\ \/ resp.entries[i]["id"] \in processed
           \/ \E j \in 1..(i - 1) :
                 EntryHasAll(resp.entries[j]) /\ resp.entries[j]["id"] = resp.entries[i]["id"]

\* The responses a run is fed: every response whose entries carry a name
\* and one of two image lists, so that an entry is complete, lacks an id or
\* a bundle_id, is no dict, or raises on its image.
BuildResponses ==
    {resp \in Responses :
        \A i \in DOMAIN resp.entries :
            resp.entries[i]["is_dict"] =>
                /\ "name" \in DOMAIN resp.entries[i]
                /\ resp.entries[i]["images"] \in
                      { <<Img("53", "s.png"), Img("100", "m.png")>>, <<Img("100", None)>> }}

FeedIdle ==
    /\ response = [status |-> "off", entries |-> <<>>]
    /\ seen_before = {}
    /\ returned = NotCalled

InitBuild ==
    /\ mode \in {"giant", "supplement", "builtin"}
    /\ limit \in 0..MaxLimit
    /\ next_req = 1
    /\ all_apps = <<>>
    /\ processed_ids = {}
    /\ saved = <<>>
    /\ build_pc = "loop"
    /\ dup_offered = FALSE
    /\ FeedIdle /\ LinksOff /\ EnrichOff

\* One iteration of the run's loop: all_apps.extend(get_app_data(...)) on
\* the response the request gets.  After the last request the run ends:
\* "if all_apps: save_to_json(all_apps, ...)".  An exception leaving
\* get_app_data ends the run with nothing saved.
FetchNext ==
    /\ build_pc = "loop"
    /\ next_req <= Len(Grid(mode, limit))
    /\ \E resp \in BuildResponses :
         LET r == get_app_data(resp, processed_ids)
             apps == all_apps \o r.new_apps
             last == next_req = Len(Grid(mode, limit))
         IN  /\ processed_ids' = r.processed
             /\ dup_offered' = (dup_offered \/ OffersDuplicate(resp, processed_ids))
             /\ IF r.outcome = "raised"
                THEN /\ build_pc' = "raised"
                     /\ UNCHANGED <<all_apps, next_req, saved>>
                ELSE /\ all_apps' = apps
                     /\ next_req' = next_req + 1
                     /\ build_pc' = IF last THEN "done" ELSE "loop"
                     /\ saved' = IF last /\ apps # <<>> THEN <<apps>> ELSE <<>>
    /\ UNCHANGED <<mode, limit, feedVars, linksVars, enrichVars>>

NextBuild == FetchNext

SpecBuild == InitBuild /\ [][NextBuild]_vars

IdsOf(apps) == [i \in DOMAIN apps |-> apps[i]["id"]]

\* C1: the list a Catalog Builder run hands to save_to_json holds no two
\* records with the same id (nor does all_apps at any point of the run).
C1_SavedIdsDistinct ==
    /\ NoDup(IdsOf(all_apps))
    /\ saved # <<>> => NoDup(IdsOf(saved[1]))

\* C1 witness: a run that was offered an id twice, made more than one
\* request and saved two records.
C1_Witness ==
    /\ build_pc = "done" /\ saved # <<>> /\ Len(saved[1]) = 2
    /\ dup_offered /\ next_req > 2

(***************************************************************************)
(* find_universal_links                                                    *)
(***************************************************************************)
MaxDetails == 2   \* details in one association document

\* The characters of the strings str.endswith is applied to.
Chars(str) ==
    CASE str = "com.a" -> <<"c", "o", "m", ".", "a">>
      [] str = "com.b" -> <<"c", "o", "m", ".", "b">>
      [] str = "T.com.a" -> <<"T", ".", "c", "o", "m", ".", "a">>
      [] str = "T.com.b" -> <<"T", ".", "c", "o", "m", ".", "b">>
      [] str = "com.a.T" -> <<"c", "o", "m", ".", "a", ".", "T">>

\* str.endswith(suffix)
EndsWith(str, suffix) ==
    LET a == Chars(str)
        b == Chars(suffix)
    IN  Len(b) <= Len(a) /\ SubSeq(a, Len(a) - Len(b) + 1, Len(a)) = b

\* urlparse(url).netloc on the seller URLs of the model: the host after
\* "//", "" when the URL has none; the third URL makes urlparse raise
\* ValueError (an unclosed IPv6 bracket).
UrlParses(url) == url # "https://[a.example/app"
Netloc(url) ==
    CASE url = "https://a.example/app" -> "a.example"
      [] url = "https://b.example/" -> "b.example"
      [] OTHER -> ""

SellerUrls == {"https://a.example/app", "https://b.example/", "a.example/app",
               "https://[a.example/app"}
Hosts == {"a.example", "b.example"}
BundleIds == {"com.a", "com.b"}

WellKnownPath == "/.well-known/apple-app-site-association"
RootPath == "/apple-app-site-association"

AssocUrl(domain, path) == [host |-> domain, path |-> path]

\* line 107: the two URLs tried, in this order.
\* CandidatePathsSwapped is the variant that tries the root path first.
CandidatePathsSwapped(domain) ==
    <<AssocUrl(domain, RootPath), AssocUrl(domain, WellKnownPath)>>
CandidatePaths(domain) ==
    <<AssocUrl(domain, WellKnownPath), AssocUrl(domain, RootPath)>>

Detail(appID, paths) ==
    ("is_dict" :> TRUE) @@ Opt("appID", appID) @@ (IF paths = <<>> THEN EmptyDict ELSE ("paths" :> paths))

\* One entry of applinks.details: a dict with an appID and a path list,
\* either of them missing, or no dict at all.
Details ==
    { Detail("T.com.a", <<"/one/*">>), Detail("T.com.a", <<"/two/*">>),
      Detail("T.com.a", <<>>), Detail("T.com.b", <<"/one/*">>),
      Detail("com.a.T", <<"/two/*">>), Detail(None, <<"/one/*">>),
      ("is_dict" :> FALSE) }

\* What requests.get on an association URL can give: a transport failure,
\* a status other than 200, an undecodable body, a JSON document that is
\* no object, or an object with its applinks.details list.
AssocResponses ==
    { [status |-> s, details |-> <<>>] :
        s \in {"transport_error", "404", "not_json", "not_object"} }
    \cup { [status |-> "ok", details |-> ds] : ds \in SeqsUpTo(Details, MaxDetails) }

\* lines 112-114 on the details from the first on: the first detail whose
\* appID is a string ending with bundle_id returns its paths ([] without
\* the key); a detail that is no dict raises AttributeError on detail.get.
RECURSIVE ScanDetails(_, _)
ScanDetails(details, bundle) ==
    IF details = <<>> THEN [do |-> "next", links |-> <<>>]
    ELSE LET detail == Head(details)
         IN  IF ~detail["is_dict"] THEN [do |-> "raise", links |-> <<>>]
             ELSE IF Get(detail, "appID") # None /\ EndsWith(detail["appID"], bundle)
                  THEN [do |-> "return",
                        links |-> IF "paths" \in DOMAIN detail THEN detail["paths"] ELSE <<>>]
                  ELSE ScanDetails(Tail(details), bundle)

\* lines 108-116 on one URL's response.
ProbePath(resp, bundle) ==
    CASE resp.status \in {"transport_error", "not_json"} ->
            [do |-> "next", links |-> <<>>]      \* caught at line 115: continue
      [] resp.status = "404" -> [do |-> "next", links |-> <<>>]
      [] resp.status = "not_object" ->
            [do |-> "raise", links |-> <<>>]     \* aasa_data.get: AttributeError
      [] OTHER -> ScanDetails(resp.details, bundle)

\* The loop of line 107 over the URLs left; an exception that is neither a
\* RequestException nor a JSONDecodeError leaves the loop for line 117,
\* which prints and falls through to "return []".
RECURSIVE ProbePaths(_, _, _, _)
ProbePaths(paths, bundle, responses, requested) ==
    IF paths = <<>> THEN [outcome |-> "returned", links |-> <<>>, requested |-> requested]
    ELSE LET made == Append(requested, Head(paths))
             probe == ProbePath(responses[Head(paths)], bundle)
         IN  CASE probe.do = "return" ->
                    [outcome |-> "returned", links |-> probe.links, requested |-> made]
               [] probe.do = "raise" ->
                    [outcome |-> "returned", links |-> <<>>, requested |-> made]
               [] OTHER -> ProbePaths(Tail(paths), bundle, responses, made)

\* find_universal_links(seller_url, bundle_id), with the responses the
\* association URLs give; "requested" lists the requests it made.
find_universal_links(url, bundle, responses) ==
    IF url = None THEN [outcome |-> "returned", links |-> <<>>, requested |-> <<>>]
    ELSE IF ~UrlParses(url)
         THEN [outcome |-> "returned", links |-> <<>>, requested |-> <<>>]
    ELSE IF Netloc(url) = ""
         THEN [outcome |-> "returned", links |-> <<>>, requested |-> <<>>]
    ELSE ProbePaths(CandidatePaths(Netloc(url)), bundle, responses, <<>>)

(***************************************************************************)
(* SpecLinks: find_universal_links on every seller URL, bundle id and pair *)
(* of association responses.                                               *)
(***************************************************************************)
AssocUrls == {AssocUrl(h, p) : h \in Hosts, p \in {WellKnownPath, RootPath}}

\* Both hosts serve the same pair of responses.
SameOnAllHosts(first, second) ==
    [u \in AssocUrls |-> IF u.path = WellKnownPath THEN first ELSE second]

InitLinks ==
    /\ arg_seller_url \in SellerUrls \cup {None}
    /\ arg_bundle_id \in BundleIds
    /\ \E first, second \in AssocResponses : web = SameOnAllHosts(first, second)
    /\ links_out = LinksNotCalled
    /\ FeedIdle /\ BuildOff /\ EnrichOff

CallFindUniversalLinks ==
    /\ links_out.outcome = "none"
    /\ web # EmptyDict
    /\ links_out' = find_universal_links(arg_seller_url, arg_bundle_id, web)
    /\ UNCHANGED <<arg_seller_url, arg_bundle_id, web, feedVars, buildVars, enrichVars>>

NextLinks == CallFindUniversalLinks

SpecLinks == InitLinks /\ [][NextLinks]_vars

\* What one association response holds for a bundle id, read off the
\* response alone: "match" when a detail whose appID ends with the bundle id
\* comes before any detail that is no dict, "malformed" when the document
\* is no object or a detail that is no dict comes first, "none" otherwise
\* (fetch failure, status other than 200, undecodable body, or a
\* well-formed document without a matching detail).
Matching(resp, bundle) ==
    {i \in DOMAIN resp.details :
        /\ resp.details[i]["is_dict"]
        /\ "appID" \in DOMAIN resp.details[i]
        /\ EndsWith(resp.details[i]["appID"], bundle)}

NotDicts(resp) == {i \in DOMAIN resp.details : ~resp.details[i]["is_dict"]}

Yield(resp, bundle) ==
    LET hits == Matching(resp, bundle) \cup NotDicts(resp)
    IN  CASE resp.status = "not_object" -> "malformed"
          [] resp.status # "ok" -> "none"
          [] hits = {} -> "none"
          [] (CHOOSE i \in hits : \A j \in hits : i <= j) \in NotDicts(resp) -> "malformed"
          [] OTHER -> "match"

\* The path list of the first matching detail ([] when it has none).
MatchPaths(resp, bundle) ==
    LET m == Matching(resp, bundle)
        d == resp.details[CHOOSE i \in m : \A j \in m : i <= j]
    IN  IF "paths" \in DOMAIN d THEN d["paths"] ELSE <<>>

ArgHost == IF UrlParses(arg_seller_url) THEN Netloc(arg_seller_url) ELSE ""
FirstAssoc == web[AssocUrl(ArgHost, WellKnownPath)]
SecondAssoc == web[AssocUrl(ArgHost, RootPath)]

\* C10 as claimed: no request without a seller URL; with a seller URL that
\* has a host, the well-known path first, the root path second exactly when
\* the first did not yield a match (an unexpectedly shaped document
\* included); a match returns its path list and ends the requests; no match
\* on either path returns [].
C10_AsClaimed ==
    links_out.outcome = "returned" =>
        /\ arg_seller_url = None => links_out.requested = <<>>
        /\ (arg_seller_url # None /\ ArgHost # "") =>
            /\ Len(links_out.requested) \in {1, 2}
            /\ links_out.requested[1].path = WellKnownPath
            /\ Len(links_out.requested) = 2 <=> Yield(FirstAssoc, arg_bundle_id) # "match"
            /\ Len(links_out.requested) = 2 => links_out.requested[2].path = RootPath
            /\ Yield(FirstAssoc, arg_bundle_id) = "match" =>
                   links_out.links = MatchPaths(FirstAssoc, arg_bundle_id)
            /\ (Yield(FirstAssoc, arg_bundle_id) # "match"
                    /\ Yield(SecondAssoc, arg_bundle_id) # "match") =>
                   links_out.links = <<>>

\* C10 as amended: no request when the seller URL is absent or has no host;
\* otherwise the well-known path is requested first and the root path second,
\* the second exactly when the first gave a fetch failure, a status other
\* than 200, an undecodable body or a well-formed document without a
\* matching detail; a match returns its path list with no further request;
\* an unexpectedly shaped document ends the search with [] and no further
\* request; no match on either path returns [].
C10_ProbeOrder ==
    links_out.outcome = "returned" =>
        IF arg_seller_url = None \/ ArgHost = ""
        THEN links_out.requested = <<>> /\ links_out.links = <<>>
        ELSE LET first == Yield(FirstAssoc, arg_bundle_id)
                 second == Yield(SecondAssoc, arg_bundle_id)
             IN  /\ links_out.requested =
                        IF first = "none"
                        THEN <<AssocUrl(ArgHost, WellKnownPath), AssocUrl(ArgHost, RootPath)>>
                        ELSE <<AssocUrl(ArgHost, WellKnownPath)>>
                 /\ links_out.links =
                        CASE first = "match" -> MatchPaths(FirstAssoc, arg_bundle_id)
                          [] first = "none" /\ second = "match" ->
                                MatchPaths(SecondAssoc, arg_bundle_id)
                          [] OTHER -> <<>>

\* C10 witness: the well-known path answered 404, the root path held a
\* matching detail, and the call returned that detail's paths after two
\* requests.
C10_Witness ==
    /\ links_out.outcome = "returned"
    /\ arg_seller_url = "https://a.example/app"
    /\ FirstAssoc.status = "404"
    /\ Yield(SecondAssoc, arg_bundle_id) = "match"
    /\ Len(links_out.requested) = 2
    /\ links_out.links = <<"/two/*">>

(***************************************************************************)
(* The Secondary Lookup Client: get_seller_url, fetch_enrichment_data.     *)
(***************************************************************************)
EnrichIds == {"1", "2", "3"}

LookupBody(resultCount, results) == ("resultCount" :> resultCount) @@ ("results" :> results)

\* What requests.get on the lookup URL can give: a transport failure, a
\* non-success status, an undecodable body, a JSON document that is no
\* object, or an object: no result, a first result with or without a
\* sellerUrl, a resultCount above an empty results list, a resultCount
\* without a results key.
LookupResponses ==
    { [status |-> s, body |-> EmptyDict] :
        s \in {"transport_error", "http_error", "not_json", "not_object"} }
    \cup { [status |-> "ok", body |-> b] :
            b \in { LookupBody(0, <<>>),
                    LookupBody(1, <<("sellerUrl" :> "https://a.example/app")>>),
                    LookupBody(1, <<("sellerUrl" :> "https://b.example/")>>),
                    LookupBody(1, <<EmptyDict>>),
                    LookupBody(1, <<>>),
                    ("resultCount" :> 1) } }

\* get_seller_url(track_id) on the response its request got: the sellerUrl
\* or None, or "raised" for the exceptions lines 95-98 do not catch
\* (AttributeError of data.get, KeyError of data["results"]).
get_seller_url(resp) ==
    CASE resp.status \in {"transport_error", "http_error"} ->
            [raised |-> FALSE, url |-> None]          \* RequestException
      [] resp.status = "not_json" ->
            [raised |-> FALSE, url |-> None]          \* JSONDecodeError
      [] resp.status = "not_object" -> [raised |-> TRUE, url |-> None]
      [] OTHER ->
            LET data == resp.body
                resultCount == IF "resultCount" \in DOMAIN data THEN data["resultCount"] ELSE 0
            IN  IF resultCount > 0
                THEN IF "results" \notin DOMAIN data THEN [raised |-> TRUE, url |-> None]
                     ELSE IF data["results"] = <<>>
                          THEN [raised |-> FALSE, url |-> None]   \* IndexError
                          ELSE [raised |-> FALSE, url |-> Get(data["results"][1], "sellerUrl")]
                ELSE [raised |-> FALSE, url |-> None]

\* The association documents the hosts serve while records are enriched.
World ==
    (AssocUrl("a.example", WellKnownPath) :>
        [status |-> "ok", details |-> <<Detail("T.com.a", <<"/one/*">>),
                                        Detail("T.com.b", <<"/two/*">>)>>])
    @@ (AssocUrl("a.example", RootPath) :> [status |-> "404", details |-> <<>>])
    @@ (AssocUrl("b.example", WellKnownPath) :> [status |-> "not_json", details |-> <<>>])
    @@ (AssocUrl("b.example", RootPath) :>
        [status |-> "ok", details |-> <<Detail("T.com.b", <<"/one/*">>)>>])

EnrichmentResult(url, links) == ("sellerUrl" :> url) @@ ("universal_links" :> links)

\* fetch_enrichment_data(app): (track_id, data), or "raised" when
\* app["bundle_id"] or get_seller_url raises.
fetch_enrichment_data(app, lookups) ==
    LET track_id == app["id"]
        failed == [raised |-> TRUE, track_id |-> track_id,
                   data |-> EnrichmentResult(None, <<>>)]
    IN  IF "bundle_id" \notin DOMAIN app THEN failed
        ELSE LET seller == get_seller_url(lookups[track_id])
             IN  IF seller.raised THEN failed
                 ELSE [raised |-> FALSE, track_id |-> track_id,
                       data |-> EnrichmentResult(seller.url,
                                    find_universal_links(seller.url, app["bundle_id"],
                                                         World).links)]

(***************************************************************************)
(* run_enrich_mode                                                         *)
(***************************************************************************)
max_workers == 2   \* ThreadPoolExecutor(max_workers=10), scaled down
MaxRuns == 2       \* consecutive runs on one directory

\* A file name without its .json extension is the sequence of its parts:
\* <<"a">> is a.json, <<"a", "_enriched">> is a_enriched.json.
Marker == "_enriched"
HasMarker(name) == Marker \in Range(name)

\* line 240: f"{name}_enriched{ext}"
NewName(name) == Append(name, Marker)

\* line 201: the *.json files of the directory without "_enriched" in
\* their path.
InputNames(d) == {name \in DOMAIN d : ~HasMarker(name)}

\* glob.glob returns the names in arbitrary order.
Orders(names) ==
    {o \in [1..Cardinality(names) -> names] : \A i, j \in DOMAIN o : i # j => o[i] # o[j]}

App(id, bundle) == Opt("id", id) @@ Opt("bundle_id", bundle)

Catalog(apps) == [kind |-> "array", apps |-> apps]

\* The contents of an input file: catalogs (two sharing id 2 under different
\* bundle ids, one holding id 1 twice, one whose record lacks bundle_id, one
\* whose record lacks id), a JSON object instead of an array, a file that
\* is no JSON, a dangling link, a file that may not be read.
FileContents ==
    { Catalog(<<App("1", "com.a"), App("2", "com.a")>>),
      Catalog(<<App("2", "com.b"), App("3", "com.b")>>),
      Catalog(<<App("1", "com.b"), App("1", "com.a")>>),
      Catalog(<<App("3", None)>>),
      Catalog(<<App("1", "com.a"), App(None, "com.a")>>),
      [kind |-> "not_array", apps |-> <<>>],
      [kind |-> "not_json", apps |-> <<>>],
      [kind |-> "missing", apps |-> <<>>],
      [kind |-> "denied", apps |-> <<>>] }

\* open + json.load: the parsed value, an exception the except clauses of
\* lines 209 and 242 catch (FileNotFoundError, JSONDecodeError), or one
\* they do not (PermissionError).
Open(content) ==
    CASE content.kind \in {"not_json", "missing"} -> "caught"
      [] content.kind = "denied" -> "raise"
      [] OTHER -> "ok"

\* lines 207-208: the first record of an id is kept.
\* AddUniqueOverwrite is the variant that assigns unconditionally.
AddUniqueOverwrite(unique, app) ==
    IF \E i \in DOMAIN unique : unique[i]["id"] = app["id"]
    THEN [i \in DOMAIN unique |-> IF unique[i]["id"] = app["id"] THEN app ELSE unique[i]]
    ELSE Append(unique, app)
AddUnique(unique, app) ==
    IF \E i \in DOMAIN unique : unique[i]["id"] = app["id"]
    THEN unique
    ELSE Append(unique, app)

\* lines 206-208 over the records of one file; app['id'] raises KeyError on
\* a record without id.
RECURSIVE LoadApps(_, _)
LoadApps(apps, unique) ==
    IF apps = <<>> THEN [raised |-> FALSE, unique |-> unique]
    ELSE IF "id" \notin DOMAIN Head(apps) THEN [raised |-> TRUE, unique |-> unique]
    ELSE LoadApps(Tail(apps), AddUnique(unique, Head(apps)))

\* Step 1, lines 202-211, over the files left.  Iterating a JSON object
\* yields its keys, and app.get on a key raises AttributeError.
RECURSIVE LoadFiles(_, _, _)
LoadFiles(files, d, unique) ==
    IF files = <<>> THEN [raised |-> FALSE, unique |-> unique]
    ELSE LET content == d[Head(files)]
         IN  CASE Open(content) = "caught" -> LoadFiles(Tail(files), d, unique)
               [] Open(content) = "raise" -> [raised |-> TRUE, unique |-> unique]
               [] content.kind = "not_array" -> [raised |-> TRUE, unique |-> unique]
               [] OTHER ->
                    LET r == LoadApps(content.apps, unique)
                    IN  IF r.raised THEN r ELSE LoadFiles(Tail(files), d, r.unique)

\* line 214: if limit: apps_to_process = apps_to_process[:limit]
Truncate(apps, lim) == IF lim # 0 THEN Prefix(apps, lim) ELSE apps

NegativeResult == EnrichmentResult(None, <<>>)

\* lines 232-237 on one record: app.update(...) or the negative marker.
EnrichApp(app, data) ==
    IF Get(app, "id") \in DOMAIN data
    THEN data[app["id"]] @@ app
    ELSE NegativeResult @@ app

\* lines 230-237: one output record per input record, in order.
\* EnrichAppsDropping is the variant that leaves out records without result.
EnrichAppsDropping(apps, data) ==
    LET kept == SelectSeq(apps, LAMBDA app : Get(app, "id") \in DOMAIN data)
    IN  [i \in DOMAIN kept |-> EnrichApp(kept[i], data)]
EnrichApps(apps, data) == [i \in DOMAIN apps |-> EnrichApp(apps[i], data)]

\* The as_completed loop has yielded every future.
\* AnyCollected is the variant that is content with one yielded future.
AnyCollected(done, tasks) == done # {} \/ tasks = <<>>
AllCollected(done, tasks) == done = DOMAIN tasks

Running == {i \in DOMAIN task : task[i] = "running"}

LookupBaseline ==
    [id \in EnrichIds |->
        [status |-> "ok",
         body |-> LookupBody(1, <<("sellerUrl" :> IF id = "2" THEN "https://b.example/"
                                                   ELSE "https://a.example/app")>>)]]

\* The lookup endpoint answers every id with a seller URL, but for at most
\* one id, which gets any of the responses.
LookupWorlds ==
    {w \in [EnrichIds -> LookupResponses] :
        Cardinality({id \in EnrichIds : w[id] # LookupBaseline[id]}) <= 1}

InitEnrich ==
    /\ \E a, b \in FileContents : dir = (<<"a">> :> a) @@ (<<"b">> :> b)
    /\ lookup \in LookupWorlds
    /\ enrich_limit \in 0..MaxLimit
    /\ run = 1
    /\ snapshot = EmptyDict
    /\ json_files = <<>> /\ unique_apps = <<>> /\ apps_to_process = <<>>
    /\ task = <<>> /\ collected = {} /\ enriched_data = EmptyDict
    /\ write_pos = 0
    /\ enrich_pc = "start"
    /\ FeedIdle /\ BuildOff /\ LinksOff

\* Steps 1 and 2 up to the last executor.submit: the scan, the load of
\* every file, the truncation, and one submitted task per record left.
LoadAndSubmit ==
    /\ enrich_pc = "start"
    /\ \E order \in Orders(InputNames(dir)) :
         LET r == LoadFiles(order, dir, <<>>)
             todo == Truncate(r.unique, enrich_limit)
         IN  /\ json_files' = order
             /\ IF r.raised
                THEN /\ enrich_pc' = "raised_load"
                     /\ UNCHANGED <<unique_apps, apps_to_process, task>>
                ELSE /\ unique_apps' = r.unique
                     /\ apps_to_process' = todo
                     /\ task' = [i \in DOMAIN todo |-> "queued"]
                     /\ enrich_pc' = "collect"
    /\ UNCHANGED <<dir, lookup, enrich_limit, run, snapshot, collected, enriched_data,
                   write_pos, feedVars, buildVars, linksVars>>

\* A free worker takes the oldest queued task.
TaskStart(i) ==
    /\ enrich_pc \in {"collect", "aborting"}
    /\ i \in DOMAIN task
    /\ task[i] = "queued"
    /\ \A j \in 1..(i - 1) : task[j] # "queued"
    /\ Cardinality(Running) < max_workers
    /\ task' = [task EXCEPT ![i] = "running"]
    /\ UNCHANGED <<dir, lookup, enrich_limit, run, snapshot, json_files, unique_apps,
                   apps_to_process, collected, enriched_data, write_pos, enrich_pc,
                   feedVars, buildVars, linksVars>>

\* fetch_enrichment_data returns or raises in its worker: the future is done.
TaskFinish(i) ==
    /\ enrich_pc \in {"collect", "aborting"}
    /\ i \in DOMAIN task
    /\ task[i] = "running"
    /\ task' = [task EXCEPT ![i] = "done"]
    /\ UNCHANGED <<dir, lookup, enrich_limit, run, snapshot, json_files, unique_apps,
                   apps_to_process, collected, enriched_data, write_pos, enrich_pc,
                   feedVars, buildVars, linksVars>>

\* lines 220-222 on the future as_completed yields: future.result() gives
\* the pair, or raises what the task raised.
Collect(i) ==
    /\ enrich_pc = "collect"
    /\ i \in DOMAIN task
    /\ task[i] = "done"
    /\ i \notin collected
    /\ LET r == fetch_enrichment_data(apps_to_process[i], lookup)
       IN  IF r.raised
           THEN /\ enrich_pc' = "aborting"
                /\ UNCHANGED <<collected, enriched_data>>
           ELSE /\ enriched_data' = (r.track_id :> r.data) @@ enriched_data
                /\ collected' = collected \cup {i}
                /\ UNCHANGED enrich_pc
    /\ UNCHANGED <<dir, lookup, enrich_limit, run, snapshot, json_files, unique_apps,
                   apps_to_process, task, write_pos, feedVars, buildVars, linksVars>>

\* The as_completed loop ends and the with block is left for Step 3.
LeavePool ==
    /\ enrich_pc = "collect"
    /\ AllCollected(collected, task)
    /\ enrich_pc' = "write"
    /\ UNCHANGED <<dir, lookup, enrich_limit, run, snapshot, json_files, unique_apps,
                   apps_to_process, task, collected, enriched_data, write_pos,
                   feedVars, buildVars, linksVars>>

\* The exception of future.result() leaves the with block: the executor's
\* shutdown waits for every submitted task, then the run ends with it.
AbortPool ==
    /\ enrich_pc = "aborting"
    /\ \A i \in DOMAIN task : task[i] = "done"
    /\ enrich_pc' = "raised_tasks"
    /\ UNCHANGED <<dir, lookup, enrich_limit, run, snapshot, json_files, unique_apps,
                   apps_to_process, task, collected, enriched_data, write_pos,
                   feedVars, buildVars, linksVars>>

\* Step 3, lines 225-243, on the next file of json_files; after the last
\* one the run is over.
WriteNext ==
    /\ enrich_pc = "write"
    /\ write_pos < Len(json_files)
    /\ LET name == json_files[write_pos + 1]
           content == dir[name]
           last == write_pos + 1 = Len(json_files)
       IN  CASE Open(content) = "caught" ->
                  /\ enrich_pc' = IF last THEN "done" ELSE "write"
                  /\ UNCHANGED dir
             [] Open(content) = "raise" \/ content.kind = "not_array" ->
                  /\ enrich_pc' = "raised_write"
                  /\ UNCHANGED dir
             [] OTHER ->
                  /\ dir' = (NewName(name) :> Catalog(EnrichApps(content.apps, enriched_data)))
                                @@ dir
                  /\ enrich_pc' = IF last THEN "done" ELSE "write"
    /\ write_pos' = write_pos + 1
    /\ UNCHANGED <<lookup, enrich_limit, run, snapshot, json_files, unique_apps,
                   apps_to_process, task, collected, enriched_data,
                   feedVars, buildVars, linksVars>>

\* run_enrich_mode is called again on the directory, the input files and
\* the lookup answers as they were.
RunAgain ==
    /\ enrich_pc = "done"
    /\ run < MaxRuns
    /\ run' = run + 1
    /\ snapshot' = dir
    /\ json_files' = <<>> /\ unique_apps' = <<>> /\ apps_to_process' = <<>>
    /\ task' = <<>> /\ collected' = {} /\ enriched_data' = EmptyDict
    /\ write_pos' = 0
    /\ enrich_pc' = "start"
    /\ UNCHANGED <<dir, lookup, enrich_limit, feedVars, buildVars, linksVars>>

Next ==
    \/ LoadAndSubmit
    \/ \E i \in 1..Cardinality(EnrichIds) : TaskStart(i) \/ TaskFinish(i) \/ Collect(i)
    \/ LeavePool
    \/ AbortPool
    \/ WriteNext
    \/ RunAgain

Spec == InitEnrich /\ [][Next]_vars

(***************************************************************************)
(* run_enrich_mode: what the claims speak of.                              *)
(***************************************************************************)
Ended == enrich_pc \in {"done", "raised_load", "raised_tasks", "raised_write"}

\* The input file is parsed by json.load.
Parsed(name) == dir[name].kind \in {"array", "not_array"}

\* The ids of the records of the parsed input files.
ReadableIds ==
    {id \in EnrichIds :
        \E name \in InputNames(dir) :
            Parsed(name) /\ \E k \in DOMAIN dir[name].apps : Get(dir[name].apps[k], "id") = id}

\* How many tasks were submitted for an id.
SubmitCount(id) == Cardinality({i \in DOMAIN task : apps_to_process[i]["id"] = id})

\* Every submitted task is done and its result is in enriched_data.
AllResultsIn ==
    \A i \in DOMAIN task :
        task[i] = "done" /\ apps_to_process[i]["id"] \in DOMAIN enriched_data

\* The files Step 3 of this run is through with.
WriteStepDone == {json_files[k] : k \in 1..write_pos}

\* The output of an input file holds the input's records in order, each
\* with the two enrichment fields: those of data[id] when the id is in
\* data, None and [] otherwise.
OutputMatches(name, data) ==
    /\ NewName(name) \in DOMAIN dir
    /\ dir[NewName(name)].kind = "array"
    /\ LET input == dir[name].apps
           output == dir[NewName(name)].apps
       IN  /\ Len(output) = Len(input)
           /\ \A k \in DOMAIN input :
                /\ \A key \in DOMAIN input[k] : Get(output[k], key) = input[k][key]
                /\ DOMAIN output[k] = DOMAIN input[k] \cup {"sellerUrl", "universal_links"}
                /\ IF Get(input[k], "id") \in DOMAIN data
                   THEN /\ output[k]["sellerUrl"] = data[input[k]["id"]]["sellerUrl"]
                        /\ output[k]["universal_links"] = data[input[k]["id"]]["universal_links"]
                   ELSE /\ output[k]["sellerUrl"] = None
                        /\ output[k]["universal_links"] = <<>>

\* C2 as claimed: a run without limit, over input files that are catalogs
\* of records with an id or cannot be read, has at its end submitted
\* fetch_enrichment_data exactly once for each id of the readable files, and
\* every enriched file written carries that call's result on each record of
\* the id.
C2_AsClaimed ==
    (/\ Ended
     /\ enrich_limit = 0
     /\ \A name \in InputNames(dir) :
            /\ dir[name].kind \in {"array", "not_json", "missing", "denied"}
            /\ \A k \in DOMAIN dir[name].apps : "id" \in DOMAIN dir[name].apps[k])
    => /\ \A id \in ReadableIds : SubmitCount(id) = 1
       /\ \A name \in WriteStepDone :
            dir[name].kind = "array" => OutputMatches(name, enriched_data)

\* C3: no enriched file is written, and Step 3 is not entered, before every
\* submitted task is done and its result is in enriched_data.
C3_NoWriteBeforeAllResults ==
    (\/ enrich_pc \in {"write", "done", "raised_write"}
     \/ write_pos > 0
     \/ dir # (IF run = 1 THEN [name \in InputNames(dir) |-> dir[name]] ELSE snapshot))
    => AllResultsIn

\* C3 witness: more records than workers were submitted and the first
\* enriched file is written.
C3_Witness ==
    /\ Len(task) > max_workers
    /\ run = 1
    /\ write_pos = 1
    /\ \E name \in DOMAIN dir : HasMarker(name)
    /\ Cardinality(DOMAIN enriched_data) = Len(task)

\* C4: in Step 3 every input file read successfully has got its enriched
\* output with the input's records in the input's order, each carrying the
\* result enriched_data holds for its id and None / [] when it holds none (as
\* for an id the limit cut off); at the end of the run no file is left out.
C4_OutputPerFile ==
    /\ \A name \in WriteStepDone :
         dir[name].kind = "array" => OutputMatches(name, enriched_data)
    /\ enrich_pc = "done" => write_pos = Len(json_files)
    /\ enrich_pc \in {"write", "done"} =>
         \A i \in DOMAIN unique_apps :
            i > Len(apps_to_process) => unique_apps[i]["id"] \notin DOMAIN enriched_data

\* C4 witness: a run with limit has ended; one output file holds a record
\* with a seller URL next to a record the limit cut off, marked None / [].
C4_Witness ==
    /\ enrich_pc = "done"
    /\ enrich_limit = 1
    /\ Len(unique_apps) > 1
    /\ \E name \in Range(json_files) :
         /\ NewName(name) \in DOMAIN dir
         /\ Len(dir[NewName(name)].apps) = 2
         /\ dir[NewName(name)].apps[1]["sellerUrl"] # None
         /\ dir[NewName(name)].apps[2]["id"] = unique_apps[2]["id"]
         /\ dir[NewName(name)].apps[2]["sellerUrl"] = None
         /\ dir[NewName(name)].apps[2]["universal_links"] = <<>>

\* C5 as claimed: a second run on the directory that has ended leaves every
\* file as the first run left it, adds none, and has read no enriched file.
C5_AsClaimed ==
    (run = 2 /\ enrich_pc = "done") =>
        /\ dir = snapshot
        /\ \A k \in DOMAIN json_files : ~HasMarker(json_files[k])

\* A submitted task fails: its record lacks bundle_id, or its lookup gives
\* anything but a result list.
TaskFails(app) ==
    \/ "bundle_id" \notin DOMAIN app
    \/ lookup[app["id"]].status # "ok"
    \/ (Get(lookup[app["id"]].body, "resultCount") = 1
          /\ Get(lookup[app["id"]].body, "results") \in {None, <<>>})

\* C6 as claimed: a run that submitted tasks ends with every submitted id
\* in enriched_data, the failed ones under None / [], and with the enriched
\* output of every input file written.
C6_AsClaimed ==
    (Ended /\ apps_to_process # <<>>) =>
        /\ enrich_pc = "done"
        /\ \A i \in DOMAIN apps_to_process :
             /\ apps_to_process[i]["id"] \in DOMAIN enriched_data
             /\ TaskFails(apps_to_process[i]) =>
                    enriched_data[apps_to_process[i]["id"]] = NegativeResult
        /\ \A name \in Range(json_files) :
             dir[name].kind = "array" => NewName(name) \in DOMAIN dir

\* An input file that is not an array of records with an id, or cannot be
\* read.
Malformed(name) ==
    \/ dir[name].kind # "array"
    \/ \E k \in DOMAIN dir[name].apps : "id" \notin DOMAIN dir[name].apps[k]

\* C7 as claimed: a malformed or unreadable input file ends neither Step 1
\* nor Step 3, and a run whose tasks all return writes the enriched output
\* of every other input file.
C7_AsClaimed ==
    Ended =>
        /\ enrich_pc \notin {"raised_load", "raised_write"}
        /\ enrich_pc = "done" =>
             \A name \in InputNames(dir) : ~Malformed(name) => NewName(name) \in DOMAIN dir

\* The records of an id in an input file, as positions.
CopiesIn(name, id) ==
    IF dir[name].kind = "array"
    THEN {k \in DOMAIN dir[name].apps : Get(dir[name].apps[k], "id") = id}
    ELSE {}

\* The positions in json_files of the files that hold the id.
FilesWith(id) == {f \in DOMAIN json_files : CopiesIn(json_files[f], id) # {}}

Loaded == enrich_pc \in {"collect", "aborting", "write", "done", "raised_tasks", "raised_write"}

\* C9 as claimed: after the load, the representative of an id is a copy from
\* the last-loaded file that holds the id.
C9_AsClaimed ==
    Loaded =>
        \A i \in DOMAIN unique_apps :
            LET id == unique_apps[i]["id"]
                last == CHOOSE f \in FilesWith(id) : \A g \in FilesWith(id) : g <= f
            IN  \E k \in CopiesIn(json_files[last], id) :
                    unique_apps[i] = dir[json_files[last]].apps[k]

\* C9 as amended: after the load, the representative of an id is the first
\* record of the id in the first-loaded file that holds it, the task is
\* called with it (its bundle_id drives the universal-link lookup), and each
\* file's own copy is what that file's output holds.
C9_FirstFileWins ==
    /\ Loaded =>
         /\ \A id \in ReadableIds : \E i \in DOMAIN unique_apps : unique_apps[i]["id"] = id
         /\ \A i \in DOMAIN unique_apps :
              LET id == unique_apps[i]["id"]
                  first == CHOOSE f \in FilesWith(id) : \A g \in FilesWith(id) : f <= g
                  copies == CopiesIn(json_files[first], id)
              IN  unique_apps[i] =
                      dir[json_files[first]].apps[CHOOSE k \in copies : \A m \in copies : k <= m]
         /\ apps_to_process = Truncate(unique_apps, enrich_limit)
         /\ \A i \in DOMAIN apps_to_process :
              LET id == apps_to_process[i]["id"]
              IN  id \in DOMAIN enriched_data =>
                    enriched_data[id]["universal_links"] =
                        find_universal_links(enriched_data[id]["sellerUrl"],
                                             apps_to_process[i]["bundle_id"], World).links
    /\ \A name \in WriteStepDone :
         dir[name].kind = "array" =>
            \A k \in DOMAIN dir[name].apps :
                Get(dir[NewName(name)].apps[k], "bundle_id") = Get(dir[name].apps[k], "bundle_id")

\* C9 witness: a run has ended in which a file loaded later holds a copy of
\* an id under another bundle_id than the representative's; its output keeps
\* that copy and carries the links found for the representative's bundle_id.
C9_Witness ==
    /\ enrich_pc = "done"
    /\ \E i \in DOMAIN apps_to_process :
         LET id == apps_to_process[i]["id"]
             name == json_files[Len(json_files)]
         IN  /\ Len(json_files) = 2
             /\ CopiesIn(json_files[1], id) # {}
             /\ \E k \in CopiesIn(name, id) :
                  /\ dir[name].apps[k]["bundle_id"] # apps_to_process[i]["bundle_id"]
                  /\ dir[NewName(name)].apps[k]["bundle_id"] = dir[name].apps[k]["bundle_id"]
                  /\ dir[NewName(name)].apps[k]["universal_links"] # <<>>
                  /\ find_universal_links(enriched_data[id]["sellerUrl"],
                                          dir[name].apps[k]["bundle_id"], World).links = <<>>

=============================================================================
